---- MODULE Spec2Model ----
(***************************************************************************)
(* The RAG agent of backend/langgraph: the agent/tools graph of graph.py,  *)
(* the two tools of tools.py and the process-wide caches of                *)
(* core/dependency.py.  Tool calls of one AGENT response run as parallel   *)
(* threads of the tools node; each thread step is one access to shared     *)
(* state (a cache, a store, the disk).                                     *)
(***************************************************************************)
EXTENDS Integers, Sequences, FiniteSets, TLC

\* ------------------------------------------------------------------ bounds
MaxToolCalls == 3   \* tool calls the chat model may request in a run
MaxCalls == 2       \* tool calls one response may carry
MaxFaults == 1      \* collaborator failures injected in a run

\* --------------------------------------------------------------- constants
None == 0           \* Python None for the two Optional caches
DefaultK == 4       \* search_knowledge_base(query, k=4)

SYSTEM_PROMPT == "You are a helpful RAG (Retrieval-Augmented Generation) assistant ..."

\* ------------------------------------------------------------- file system
MissingPath == "/no/such.txt"
PdfPath == "/docs/a.PDF"
TxtPath == "/docs/notes.txt"
Paths == {MissingPath, PdfPath, TxtPath}

\* Path(p).exists()
Exists(p) == p \in {PdfPath, TxtPath}

\* Path(p).suffix
Suffix(p) == CASE p = MissingPath -> ".txt"
               [] p = PdfPath -> ".PDF"
               [] p = TxtPath -> ".txt"

\* Path(p).name
Name(p) == CASE p = MissingPath -> "such.txt"
             [] p = PdfPath -> "a.PDF"
             [] p = TxtPath -> "notes.txt"

\* str.lower() on the suffixes above
Lower(s) == IF s = ".PDF" THEN ".pdf" ELSE s

\* ---------------------------------------------------------------- messages
Msg(type, id, tool_calls, tool_call_id, content) ==
    [type |-> type, id |-> id, tool_calls |-> tool_calls,
     tool_call_id |-> tool_call_id, content |-> content]

HumanMessage(id, text) == Msg("human", id, <<>>, 0, <<text>>)
SystemMessage(text) == Msg("system", 0, <<>>, 0, <<text>>)
AIMessage(id, tool_calls, text) == Msg("ai", id, tool_calls, 0, <<text>>)
ToolMessage(id, tool_call_id, content) == Msg("tool", id, <<>>, tool_call_id, content)

Last(s) == s[Len(s)]

\* RAGState.messages declared without a reducer: an update overwrites the
\* history
add_messages_overwrite(left, right) == right

\* The add_messages reducer of RAGState.messages: a message whose id is
\* already in the history replaces that message in place, any other message
\* is appended.
RECURSIVE add_messages(_, _)
add_messages(left, right) ==
    IF right = <<>> THEN left
    ELSE LET m == Head(right)
             hit == {i \in 1..Len(left) : left[i].id = m.id}
             merged == IF hit = {}
                       THEN Append(left, m)
                       ELSE [i \in 1..Len(left) |-> IF i \in hit THEN m ELSE left[i]]
         IN add_messages(merged, Tail(right))

\* the state of the graph as a node sees it
RAGState(msgs, docs) == [messages |-> msgs, retrieved_docs |-> docs]

\* state.py lines 17-18: how a node's state update is applied. messages goes
\* through its reducer add_messages; retrieved_docs has no reducer, so a written
\* value replaces the previous one; a key the update does not carry is left
\* alone.
apply_update(state, update) ==
    RAGState(IF "messages" \in DOMAIN update
             THEN add_messages(state.messages, update.messages)
             ELSE state.messages,
             IF "retrieved_docs" \in DOMAIN update
             THEN update.retrieved_docs
             ELSE state.retrieved_docs)

\* ------------------------------------------------------------ tool catalog
IngestCall(p) ==
    [name |-> "ingest_document", file_path |-> p, query |-> "", k |-> 0, id |-> 0]
SearchCall(q, k) ==
    [name |-> "search_knowledge_base", file_path |-> "", query |-> q, k |-> k, id |-> 0]

Queries == {"X"}
Ks == {DefaultK}

\* the tool-call requests a chat model bound to rag_tools can emit
Calls == {IngestCall(p) : p \in Paths} \cup {SearchCall(q, k) : q \in Queries, k \in Ks}

\* the tool_calls lists of one response: no call (a final answer) up to MaxCalls
CallLists == UNION {[1..n -> Calls] : n \in 0..MaxCalls}

\* the chat model gives every request of a response its own call id
WithIds(cl, base) == [i \in 1..Len(cl) |-> [cl[i] EXCEPT !.id = base + i]]

\* ------------------------------------------------------------- tool output
\* A Python string is the sequence of the pieces its f-string is built from.
NotFoundPrefix == "Error: File not found at "
NotPdfPrefix == "Error: File must be a PDF. Got "
IngestErrorPrefix == "Error ingesting document: "
SearchErrorPrefix == "Error searching knowledge base: "
NoResults == <<"No relevant documents found in the knowledge base.">>
Separator == "\n\n---\n\n"

NotFoundText(p) == <<NotFoundPrefix, p>>
NotPdfText(p) == <<NotPdfPrefix, Suffix(p)>>
SuccessText(p, pages, chunks) ==
    <<"Successfully ingested '", Name(p), "': ", ToString(pages),
      " pages processed, ", ToString(chunks), " chunks indexed.">>
IngestErrorText(e) == <<IngestErrorPrefix, e>>
SearchErrorText(e) == <<SearchErrorPrefix, e>>

\* the record numbered from 0, as enumerate(context_chunks) without its start
FormatChunk_zero_based(i, chunk) ==
    LET page == IF chunk.page_number # 0
                THEN <<", Page ", ToString(chunk.page_number)>> ELSE <<>>
        source_info == IF chunk.source # ""
                       THEN <<" (Source: ", chunk.source>> \o page \o <<")">>
                       ELSE <<>>
    IN <<"[", ToString(i - 1), "]">> \o source_info \o <<"\n", chunk.text>>

\* lines 99-106 of tools.py: the record of the i-th retrieved chunk
FormatChunk(i, chunk) ==
    LET page == IF chunk.page_number # 0
                THEN <<", Page ", ToString(chunk.page_number)>> ELSE <<>>
        source_info == IF chunk.source # ""
                       THEN <<" (Source: ", chunk.source>> \o page \o <<")">>
                       ELSE <<>>
    IN <<"[", ToString(i), "]">> \o source_info \o <<"\n", chunk.text>>

\* line 108 of tools.py: separator.join(results)
RECURSIVE Join(_)
Join(results) ==
    IF results = <<>> THEN <<>>
    ELSE IF Len(results) = 1 THEN Head(results)
    ELSE Head(results) \o <<Separator>> \o Join(Tail(results))

\* search_knowledge_base without the test of line 95
FormatResults_no_empty_test(context_chunks) ==
    Join([i \in 1..Len(context_chunks) |-> FormatChunk(i, context_chunks[i])])

\* tools.py lines 95-108
FormatResults(context_chunks) ==
    IF context_chunks = <<>> THEN NoResults
    ELSE Join([i \in 1..Len(context_chunks) |-> FormatChunk(i, context_chunks[i])])

\* ------------------------------------------------------------ vector store
EmptyMap == [x \in {} |-> 0]

\* a chunk payload as the tools render it
Chunk(text, source, page_number) ==
    [text |-> text, source |-> source, page_number |-> page_number]

\* Vectors are pairs of integers in fixed point: a vector of length Scale has
\* unit L2 norm.
Scale == 10

\* the Embedding Provider: embed_query and embed_documents on the texts of the
\* model; the provider does not normalize ("X" and "a text" have length 5)
embed_query(text) ==
    CASE text = "dimension check" -> <<6, 8>>
      [] text = "X" -> <<3, 4>>
      [] text = "a text" -> <<4, 3>>
      [] OTHER -> <<0, 10>>

Dot(u, v) == u[1] * v[1] + u[2] * v[2]

\* the L2 norm of a vector (the vectors of the model have integer norms)
Norm(v) == CHOOSE n \in 0..(2 * Scale) : n * n = Dot(v, v)

\* faiss.normalize_L2
normalize_L2(v) == [j \in 1..Len(v) |-> (v[j] * Scale) \div Norm(v)]

\* dependency.py lines 26-28
vector_dim == Len(embed_query("dimension check"))

\* dependency.py lines 31-40: an empty inner-product store of the probed
\* dimension, normalize_L2=True
BuildNewStore ==
    [index |-> <<>>, docstore |-> EmptyMap, index_to_docstore_id |-> EmptyMap,
     normalize_L2 |-> TRUE, dim |-> vector_dim]

\* dependency.py lines 62-66: FAISS.load_local(path, embedder,
\* allow_dangerous_deserialization=True); no normalize_L2 argument is passed,
\* so the loaded instance has the constructor's default
LoadLocal(saved) ==
    [index |-> saved.index, docstore |-> saved.docstore,
     index_to_docstore_id |-> saved.index_to_docstore_id,
     normalize_L2 |-> FALSE, dim |-> saved.dim]

\* dependency.py line 76: store.save_local(path)
SaveLocal(store) ==
    [index |-> store.index, docstore |-> store.docstore,
     index_to_docstore_id |-> store.index_to_docstore_id, dim |-> store.dim]

\* get_vector_store testing for a file at the path: a directory never passes
HasPersistedStore_is_file(d) == FALSE

\* dependency.py line 61: store_path.exists() and any(store_path.iterdir())
HasPersistedStore(d) == d.exists /\ d.saved # <<>>

\* the store a previous process left on disk: two unit vectors, a chunk with
\* a page number and no source and a chunk with a source and no page number
PersistedStore ==
    [index |-> << <<10, 0>>, <<6, 8>> >>,
     docstore |-> (900 :> Chunk("old text", "", 3)) @@
                  (901 :> Chunk("more text", "b.pdf", 0)),
     index_to_docstore_id |-> (0 :> 900) @@ (1 :> 901),
     dim |-> 2]

Disks == {[exists |-> FALSE, saved |-> <<>>],
          [exists |-> TRUE, saved |-> <<>>],
          [exists |-> TRUE, saved |-> <<PersistedStore>>]}

\* the vector the store compares or indexes for an embedding
Prepared(store, v) == IF store.normalize_L2 THEN normalize_L2(v) ELSE v

\* the inner product of the query with the entry at a position (0-based)
Score(store, q, p) == Dot(q, store.index[p + 1])

\* position p is ranked before position r: a higher score, or the same score
\* and an earlier position
Before(store, q, p, r) ==
    \/ Score(store, q, p) > Score(store, q, r)
    \/ Score(store, q, p) = Score(store, q, r) /\ p < r

\* the positions of the index by descending score, the best n of them
Ranked(store, q, positions, n) ==
    LET size == Cardinality(positions)
    IN [j \in 1..(IF n < size THEN n ELSE size) |->
           CHOOSE p \in positions :
               Cardinality({r \in positions : Before(store, q, r, p)}) = j - 1]

\* the hits of a search: each of the top positions looked up in
\* index_to_docstore_id (an unmapped position raises)
Lookup(store, q, top) ==
    IF \E j \in DOMAIN top : top[j] \notin DOMAIN store.index_to_docstore_id
    THEN [raised |-> TRUE, hits |-> <<>>, error |-> "KeyError"]
    ELSE [raised |-> FALSE,
          hits |-> [j \in DOMAIN top |->
                      [id |-> store.index_to_docstore_id[top[j]],
                       score |-> Score(store, q, top[j])]],
          error |-> ""]

\* VectorStore.similarity_search(query_text, k): embed the query, normalize it
\* when the store normalizes, take the top k of the index by inner product, and
\* look each position up. (q and top range over singleton sets so that each is
\* computed once.)
similarity_search(store, query, k) ==
    CHOOSE r \in UNION {{Lookup(store, q, top) :
                            top \in {Ranked(store, q, 0..(Len(store.index) - 1), k)}} :
                        q \in {Prepared(store, embed_query(query))}} : TRUE

\* ChatService.show_context(query, k): the chunks of the similarity search
show_context(store, query, k) ==
    CHOOSE c \in {[raised |-> r.raised,
                   chunks |-> [j \in DOMAIN r.hits |-> store.docstore[r.hits[j].id]],
                   error |-> r.error] :
                      r \in {similarity_search(store, query, k)}} : TRUE

\* ------------------------------------------------------------------- state
VARIABLES
    pc,                 \* node of the graph the run is at
    messages,           \* RAGState.messages
    retrieved_docs,     \* RAGState.retrieved_docs
    sent,               \* the message list of the latest chat-model invocation
    modelCalls,         \* chat-model invocations of the run
    toolsSteps,         \* completed steps of the tools node
    toolRuns,           \* tool invocations of the run
    tool,               \* the tool calls of the running tools step, one thread each
    chat_service,       \* tools._chat_service
    vector_store_cache, \* dependency._vector_store_cache
    services,           \* the ChatService instances constructed so far
    stores,             \* the FAISS instances built or loaded so far
    docstore,           \* the chunk ids held by the Document Store
    disk,               \* cfg.vector_store_path
    faults,             \* collaborator failures so far
    probes,             \* embed_query("dimension check") calls of _vector_dim
    loads               \* FAISS.load_local calls

vars == <<pc, messages, retrieved_docs, sent, modelCalls, toolsSteps, toolRuns,
          tool, chat_service, vector_store_cache, services, stores, docstore,
          disk, faults, probes, loads>>

loopVars == <<pc, messages, retrieved_docs, sent, modelCalls, toolsSteps>>
shared == <<chat_service, vector_store_cache, services, stores, docstore, disk,
            probes, loads>>

\* the inputs of a turn: the history so far and the retrieved_docs of the caller
TurnInputs ==
    {[messages |-> <<HumanMessage(1, "question")>>, retrieved_docs |-> <<>>],
     [messages |-> <<HumanMessage(1, "hello"), AIMessage(2, <<>>, "hi"),
                     HumanMessage(3, "question")>>,
      retrieved_docs |-> <<Chunk("old text", "", 0)>>]}

Init ==
    /\ \E in \in TurnInputs :
          /\ messages = in.messages
          /\ retrieved_docs = in.retrieved_docs
          /\ disk \in {d \in Disks : (d.saved # <<>>) <=> (in.retrieved_docs # <<>>)}
    /\ pc = "agent"
    /\ sent = <<>>
    /\ modelCalls = 0
    /\ toolsSteps = 0
    /\ toolRuns = 0
    /\ tool = <<>>
    /\ chat_service = None
    /\ vector_store_cache = None
    /\ services = <<>>
    /\ stores = <<>>
    /\ docstore = {}
    /\ faults = 0
    /\ probes = 0
    /\ loads = 0

\* ------------------------------------------------------------- agent graph
\* should_continue testing the first message of the history instead of the last
should_continue_first(msgs) ==
    IF msgs = <<>> THEN "END"
    ELSE IF msgs[1].type = "ai" /\ msgs[1].tool_calls # <<>> THEN "tools" ELSE "END"

\* should_continue with an iteration cap: the turn ends once the history is long
should_continue_capped(msgs) ==
    IF msgs = <<>> \/ Len(msgs) > 4 THEN "END"
    ELSE IF Last(msgs).type = "ai" /\ Last(msgs).tool_calls # <<>> THEN "tools" ELSE "END"

\* graph.py lines 57-73
should_continue(msgs) ==
    IF msgs = <<>> THEN "END"
    ELSE LET last_message == Last(msgs)
         IN IF last_message.type = "ai" /\ last_message.tool_calls # <<>>
            THEN "tools"
            ELSE "END"

\* a tool call of the tools node before it starts
NewThread ==
    [pc |-> "start", svc |-> None, store |-> None, starting_len |-> 0,
     outcome |-> "", result |-> <<>>]

\* graph.py lines 48-49: the message list sent to the chat model
compose(history) == <<SystemMessage(SYSTEM_PROMPT)>> \o history

\* agent_node returning the system prompt along with the response
agent_update_with_prompt(response) ==
    [messages |-> <<SystemMessage(SYSTEM_PROMPT), response>>]

\* agent_node also writing the response text into retrieved_docs
agent_update_with_docs(response) ==
    [messages |-> <<response>>, retrieved_docs |-> <<response.content>>]

\* graph.py line 54: the state update agent_node returns
agent_update(response) == [messages |-> <<response>>]

\* graph.py lines 34-54 and the conditional edge of lines 96-103: one chat-model
\* invocation on the composed list, the response merged into the history, the
\* edge taken
agent_node ==
    /\ pc = "agent"
    /\ \E cl \in CallLists :
          /\ toolRuns + Len(cl) <= MaxToolCalls
          /\ LET response == AIMessage(Len(messages) + 1,
                                       WithIds(cl, 10 * (modelCalls + 1)),
                                       IF cl = <<>> THEN "answer" ELSE "")
                 after == apply_update(RAGState(messages, retrieved_docs),
                                       agent_update(response))
                 new == after.messages
             IN /\ messages' = new
                /\ retrieved_docs' = after.retrieved_docs
                /\ pc' = should_continue(new)
                /\ tool' = IF should_continue(new) = "tools"
                           THEN [i \in 1..Len(Last(new).tool_calls) |-> NewThread]
                           ELSE <<>>
    /\ sent' = compose(messages)
    /\ modelCalls' = modelCalls + 1
    /\ UNCHANGED <<toolsSteps, toolRuns, shared, faults>>

\* -------------------------------------------------------------- tool calls
\* the request the i-th thread of the tools node executes
call(i) == Last(messages).tool_calls[i]

Running(i, at) == pc = "tools" /\ i \in DOMAIN tool /\ tool[i].pc = at

\* ingest_document without its except clause: the exception leaves the tool
ingest_except_missing(e) == [outcome |-> "raised", result |-> <<e>>]

\* tools.py lines 72-74: except Exception in ingest_document
ingest_except(e) == [outcome |-> "returned", result |-> IngestErrorText(e)]

\* tools.py lines 109-111: except Exception in search_knowledge_base
search_except(e) == [outcome |-> "returned", result |-> SearchErrorText(e)]

\* the tool returns text
Return(i, text) ==
    tool' = [tool EXCEPT ![i].pc = "done", ![i].outcome = "returned",
                         ![i].result = text]

\* an exception e is raised inside the try block of the tool
Raise(i, e) ==
    LET h == IF call(i).name = "ingest_document"
             THEN ingest_except(e) ELSE search_except(e)
    IN tool' = [tool EXCEPT ![i].pc = "done", ![i].outcome = h.outcome,
                            ![i].result = h.result]

Goto(i, at) == tool' = [tool EXCEPT ![i].pc = at]

\* ingest_document checking the extension only
Validate_suffix_only(file_path) ==
    IF ~(Lower(Suffix(file_path)) = ".pdf") THEN NotPdfText(file_path) ELSE <<>>

\* ingest_document checking the extension before the existence
Validate_suffix_first(file_path) ==
    IF ~(Lower(Suffix(file_path)) = ".pdf") THEN NotPdfText(file_path)
    ELSE IF ~Exists(file_path) THEN NotFoundText(file_path)
    ELSE <<>>

\* tools.py lines 58-62: the checks of ingest_document, <<>> when they pass
Validate(file_path) ==
    IF ~Exists(file_path) THEN NotFoundText(file_path)
    ELSE IF ~(Lower(Suffix(file_path)) = ".pdf") THEN NotPdfText(file_path)
    ELSE <<>>

\* the ingestion pipeline's output for a PDF: its page count and its one chunk
Pages(file_path) == 2
ChunkOf(file_path) == Chunk("a text", Name(file_path), 1)
VectorOf(file_path) == embed_query(ChunkOf(file_path).text)

\* tools.py lines 57-64 and 91-92 with lines 28 and 41: the tool starts,
\* ingest_document validates its path, and _get_chat_service reads the service
\* cache, which it returns when it is set
tool_start(i) ==
    /\ Running(i, "start")
    /\ toolRuns' = toolRuns + 1
    /\ IF call(i).name = "ingest_document" /\ Validate(call(i).file_path) # <<>>
       THEN Return(i, Validate(call(i).file_path))
       ELSE IF chat_service # None
            THEN tool' = [tool EXCEPT ![i].pc = "svc_call", ![i].svc = chat_service]
            ELSE Goto(i, "gvs_check")
    /\ UNCHANGED <<loopVars, shared, faults>>

\* dependency.py lines 53-55: the test of the vector store cache, which is
\* returned when it is set
get_vector_store_check(i) ==
    /\ Running(i, "gvs_check")
    /\ IF vector_store_cache # None
       THEN tool' = [tool EXCEPT ![i].pc = "gcs_create", ![i].store = vector_store_cache]
       ELSE Goto(i, "gvs_create")
    /\ UNCHANGED <<loopVars, toolRuns, shared, faults>>

\* dependency.py lines 61-68: the branch taken calls load_local once, or
\* embed_query once through _build_new_store and _vector_dim (lines 26-32)
Attempt ==
    IF HasPersistedStore(disk)
    THEN loads' = loads + 1 /\ probes' = probes
    ELSE probes' = probes + 1 /\ loads' = loads

\* dependency.py lines 57-70: load the persisted store or build a new one,
\* assign the cache and return the instance
get_vector_store_create(i) ==
    /\ Running(i, "gvs_create")
    /\ stores' = Append(stores, IF HasPersistedStore(disk)
                                THEN LoadLocal(disk.saved[1])
                                ELSE BuildNewStore)
    /\ vector_store_cache' = Len(stores) + 1
    /\ Attempt
    /\ tool' = [tool EXCEPT ![i].pc = "gcs_create", ![i].store = Len(stores) + 1]
    /\ UNCHANGED <<loopVars, toolRuns, chat_service, services, docstore, disk, faults>>

\* get_vector_store caching an unfinished store before the failing call
get_vector_store_raises_caching(i) ==
    /\ Running(i, "gvs_create")
    /\ faults < MaxFaults
    /\ faults' = faults + 1
    /\ stores' = Append(stores, BuildNewStore)
    /\ vector_store_cache' = Len(stores) + 1
    /\ Raise(i, IF HasPersistedStore(disk)
                THEN "could not load store" ELSE "embedding probe failed")
    /\ Attempt
    /\ UNCHANGED <<loopVars, toolRuns, chat_service, services, docstore, disk>>

\* dependency.py lines 62-68 raising: load_local or the embedding probe fails
get_vector_store_raises(i) ==
    /\ Running(i, "gvs_create")
    /\ faults < MaxFaults
    /\ faults' = faults + 1
    /\ Raise(i, IF HasPersistedStore(disk)
                THEN "could not load store" ELSE "embedding probe failed")
    /\ Attempt
    /\ UNCHANGED <<loopVars, toolRuns, chat_service, vector_store_cache, services,
                   stores, docstore, disk>>

\* tools.py lines 31-41: construct the ChatService, assign the cache and return
\* the instance
get_chat_service_create(i) ==
    /\ Running(i, "gcs_create")
    /\ services' = Append(services, [vector_store |-> tool[i].store])
    /\ chat_service' = Len(services) + 1
    /\ tool' = [tool EXCEPT ![i].pc = "svc_call", ![i].svc = Len(services) + 1]
    /\ UNCHANGED <<loopVars, toolRuns, vector_store_cache, stores, docstore, disk,
                   faults, probes, loads>>

\* tools.py lines 31-40 raising: a collaborator of the service fails
get_chat_service_raises(i) ==
    /\ Running(i, "gcs_create")
    /\ faults < MaxFaults
    /\ faults' = faults + 1
    /\ Raise(i, "service construction failed")
    /\ UNCHANGED <<loopVars, toolRuns, shared>>

\* the store of the service the thread holds
StoreOf(i) == services[tool[i].svc].vector_store

\* tools.py lines 93-108: retrieve and format
search_knowledge_base(i) ==
    /\ Running(i, "svc_call")
    /\ call(i).name = "search_knowledge_base"
    /\ \E r \in {show_context(stores[StoreOf(i)], call(i).query, call(i).k)} :
          IF r.raised THEN Raise(i, r.error)
          ELSE Return(i, FormatResults(r.chunks))
    /\ UNCHANGED <<loopVars, toolRuns, shared, faults>>

\* tools.py line 93 raising: embedding the query or the search fails
search_knowledge_base_raises(i) ==
    /\ Running(i, "svc_call")
    /\ call(i).name = "search_knowledge_base"
    /\ faults < MaxFaults
    /\ faults' = faults + 1
    /\ Raise(i, "embedding failed")
    /\ UNCHANGED <<loopVars, toolRuns, shared>>

\* tools.py line 65, first half of the insert: extraction and embedding, then
\* the vector is added to the index and the chunk to the store's docstore
ingest_index_add(i) ==
    /\ Running(i, "svc_call")
    /\ call(i).name = "ingest_document"
    /\ LET s == StoreOf(i)
           st == stores[s]
       IN stores' = [stores EXCEPT
              ![s].index = Append(st.index, Prepared(st, VectorOf(call(i).file_path))),
              ![s].docstore = (call(i).id :> ChunkOf(call(i).file_path)) @@ st.docstore]
    /\ Goto(i, "ins_len")
    /\ UNCHANGED <<loopVars, toolRuns, chat_service, vector_store_cache, services,
                   docstore, disk, faults, probes, loads>>

\* tools.py line 65 raising: extraction or embedding fails before the insert
ingest_raises(i) ==
    /\ Running(i, "svc_call")
    /\ call(i).name = "ingest_document"
    /\ faults < MaxFaults
    /\ faults' = faults + 1
    /\ Raise(i, "extraction failed")
    /\ UNCHANGED <<loopVars, toolRuns, shared>>

\* the insert reads the size of the id mapping: the position of the new entry
ingest_read_len(i) ==
    /\ Running(i, "ins_len")
    /\ tool' = [tool EXCEPT ![i].pc = "ins_map",
                  ![i].starting_len =
                      Cardinality(DOMAIN stores[StoreOf(i)].index_to_docstore_id)]
    /\ UNCHANGED <<loopVars, toolRuns, shared, faults>>

\* the insert maps that position to the generated document id
ingest_map_update(i) ==
    /\ Running(i, "ins_map")
    /\ LET s == StoreOf(i)
       IN stores' = [stores EXCEPT ![s].index_to_docstore_id =
                        (tool[i].starting_len :> call(i).id) @@ @]
    /\ Goto(i, "ins_done")
    /\ UNCHANGED <<loopVars, toolRuns, chat_service, vector_store_cache, services,
                   docstore, disk, faults, probes, loads>>

\* dependency.py lines 73-76
persist_vector_store(store) ==
    disk' = [exists |-> TRUE, saved |-> <<SaveLocal(store)>>]

\* tools.py lines 65-71: the pipeline writes the Document Store and persists
\* the vector store, and ingest_document reports the counts
ingest_document_done(i) ==
    /\ Running(i, "ins_done")
    /\ docstore' = docstore \cup {call(i).id}
    /\ persist_vector_store(stores[StoreOf(i)])
    /\ Return(i, SuccessText(call(i).file_path, Pages(call(i).file_path), 1))
    /\ UNCHANGED <<loopVars, toolRuns, chat_service, vector_store_cache, services,
                   stores, faults, probes, loads>>

\* the tools node reporting the results in reverse request order
ToolResultsReversed(msgs, threads) ==
    LET n == Len(threads)
    IN [i \in DOMAIN threads |->
           ToolMessage(Len(msgs) + i, Last(msgs).tool_calls[n + 1 - i].id,
                       threads[n + 1 - i].result)]

\* the tools node reporting every result twice
ToolResultsTwice(msgs, threads) ==
    LET n == Len(threads)
    IN [i \in 1..(2 * n) |->
           LET j == IF i > n THEN i - n ELSE i
           IN ToolMessage(Len(msgs) + i, Last(msgs).tool_calls[j].id,
                          threads[j].result)]

\* graph.py line 90: the state update of ToolNode, one ToolMessage per call of
\* the last message, in request order
ToolResults(msgs, threads) ==
    [i \in DOMAIN threads |->
        ToolMessage(Len(msgs) + i, Last(msgs).tool_calls[i].id, threads[i].result)]

\* the tools node wired to END instead of back to the agent
tools_edge_to_end == "END"

\* graph.py line 106: the edge that leaves the tools node
tools_edge == "agent"

\* graph.py lines 90 and 106: the tools node has run every call; its messages
\* are merged into the history and the edge back to agent is taken (a tool that
\* raised ends the run instead)
tools_node ==
    /\ pc = "tools"
    /\ \A i \in DOMAIN tool : tool[i].pc = "done"
    /\ LET after == apply_update(RAGState(messages, retrieved_docs),
                               [messages |-> ToolResults(messages, tool)])
       IN /\ messages' = after.messages
          /\ retrieved_docs' = after.retrieved_docs
    /\ pc' = IF \E i \in DOMAIN tool : tool[i].outcome = "raised"
             THEN "error" ELSE tools_edge
    /\ toolsSteps' = toolsSteps + 1
    /\ tool' = <<>>
    /\ UNCHANGED <<sent, modelCalls, toolRuns, shared, faults>>

Next ==
    \/ agent_node
    \/ tools_node
    \/ \E i \in 1..(MaxCalls + 1) :
          \/ tool_start(i)
          \/ get_vector_store_check(i)
          \/ get_vector_store_create(i)
          \/ get_vector_store_raises(i)
          \/ get_chat_service_create(i)
          \/ get_chat_service_raises(i)
          \/ search_knowledge_base(i)
          \/ search_knowledge_base_raises(i)
          \/ ingest_index_add(i)
          \/ ingest_raises(i)
          \/ ingest_read_len(i)
          \/ ingest_map_update(i)
          \/ ingest_document_done(i)

Spec == Init /\ [][Next]_vars

\* Every chat-model invocation and every tool invocation returns: a step of the
\* loop that can be taken is eventually taken.
\* the turn the liveness analysis follows: the three-message history with the
\* persisted store on disk
InitLive == Init /\ HasPersistedStore(disk)

SpecLive == InitLive /\ [][Next]_vars /\ WF_vars(Next)

\* ================================================================== claims

\* C1: after every AGENT step the next state is TOOLS if and only if the
\* response just appended to the history carries at least one tool-call request,
\* and END otherwise; an AGENT step is followed by nothing else.
C1_AgentRouting ==
    [][(pc = "agent" /\ modelCalls' = modelCalls + 1) =>
          /\ Len(messages') = Len(messages) + 1
          /\ Last(messages').type = "ai"
          /\ pc' \in {"tools", "END"}
          /\ (pc' = "tools") <=> (Last(messages').tool_calls # <<>>)
          /\ (pc' = "END") <=> (Last(messages').tool_calls = <<>>)]_vars

\* an AGENT step has just routed a tool-calling response to TOOLS
C1_Witness ==
    /\ pc = "tools"
    /\ modelCalls = 1
    /\ Len(Last(messages).tool_calls) = 2

\* the text a tool gives for a request: ingest_document answers with one of its
\* four texts, search_knowledge_base with one of its three
AnswerOf(c, text) ==
    IF c.name = "ingest_document"
    THEN text[1] \in {NotFoundPrefix, NotPdfPrefix, IngestErrorPrefix,
                      "Successfully ingested '"}
    ELSE text = NoResults \/ text[1] \in {"[", SearchErrorPrefix}

\* C2: for an AGENT response requesting n >= 1 tool calls, the TOOLS step appends
\* exactly n tool-result messages, the i-th answering the i-th requested call,
\* all of them before the next AGENT step, and the step is followed by AGENT.
C2_ToolsStep ==
    [][(pc = "tools" /\ pc' # "tools") =>
          LET calls == Last(messages).tool_calls
              n == Len(calls)
              old == Len(messages)
          IN /\ n >= 1
             /\ Len(messages') = old + n
             /\ SubSeq(messages', 1, old) = messages
             /\ \A i \in 1..n :
                   /\ messages'[old + i].type = "tool"
                   /\ messages'[old + i].tool_call_id = calls[i].id
                   /\ AnswerOf(calls[i], messages'[old + i].content)
             /\ pc' = "agent"]_vars

\* a TOOLS step has answered an ingest_document call and a
\* search_knowledge_base call of one response, in that order
C2_Witness ==
    /\ pc = "agent"
    /\ Len(messages) >= 3
    /\ LET l == Len(messages)
       IN /\ messages[l - 2].type = "ai"
          /\ Len(messages[l - 2].tool_calls) = 2
          /\ messages[l - 2].tool_calls[1].name = "ingest_document"
          /\ messages[l - 2].tool_calls[2].name = "search_knowledge_base"
          /\ messages[l - 1].type = "tool"
          /\ messages[l].type = "tool"

Responses == SelectSeq(messages, LAMBDA m : m.type = "ai")

\* the run of C4: one human message, a first response with the single call
\* search_knowledge_base("X", 4), a second response without tool calls
C4_Scenario ==
    /\ Len(messages) >= 2
    /\ messages[1].type = "human"
    /\ messages[2].type = "ai"
    /\ Len(messages[2].tool_calls) = 1
    /\ [messages[2].tool_calls[1] EXCEPT !.id = 0] = SearchCall("X", DefaultK)
    /\ Len(Responses) >= 2
    /\ Responses[2].tool_calls = <<>>

\* C4: in that run the loop performs exactly one tool invocation and two model
\* invocations, and ends with the 4 stored messages human, ai(tool-call),
\* tool-result, ai(final).
C4_SingleToolTurn ==
    C4_Scenario =>
        /\ pc = "END"
        /\ toolRuns = 1
        /\ toolsSteps = 1
        /\ modelCalls = 2
        /\ Len(messages) = 4
        /\ [j \in 1..4 |-> messages[j].type] = <<"human", "ai", "tool", "ai">>
        /\ messages[3].tool_call_id = messages[2].tool_calls[1].id
        /\ messages[4].tool_calls = <<>>

C4_Witness == C4_Scenario /\ pc = "END" /\ messages[3].content = NoResults

\* C5: every chat-model invocation is sent exactly the fixed system prompt
\* followed by the full stored history, and the stored history never holds the
\* system prompt: an AGENT step stores nothing but the response.
C5_PromptNotStored ==
    /\ [](\A j \in DOMAIN messages : messages[j].type # "system")
    /\ [][modelCalls' = modelCalls + 1 =>
            /\ sent' = <<SystemMessage(SYSTEM_PROMPT)>> \o messages
            /\ Len(messages') = Len(messages) + 1
            /\ SubSeq(messages', 1, Len(messages)) = messages
            /\ Last(messages').type = "ai"]_vars

\* the second invocation of a run was sent the prompt, the question, the first
\* response and its tool results
C5_Witness ==
    /\ modelCalls = 2
    /\ Len(sent) >= 4
    /\ sent[1] = SystemMessage(SYSTEM_PROMPT)
    /\ sent[Len(sent)].type = "tool"

\* C6: ingest_document on a path that does not exist returns a text containing
\* "not found" without invoking the ingestion pipeline, and its step leaves the
\* Vector Store, the Document Store and the disk unchanged.
C6_MissingFile ==
    /\ [](\A i \in DOMAIN tool :
            (call(i).name = "ingest_document" /\ ~Exists(call(i).file_path)) =>
                /\ tool[i].pc \in {"start", "done"}
                /\ tool[i].pc = "done" =>
                      /\ tool[i].outcome = "returned"
                      /\ tool[i].result =
                            <<"Error: File not found at ", call(i).file_path>>)
    /\ [][\A i \in DOMAIN tool :
            (/\ Running(i, "start")
             /\ call(i).name = "ingest_document"
             /\ ~Exists(call(i).file_path)
             /\ tool'[i] # tool[i]) =>
                /\ tool'[i].pc = "done"
                /\ UNCHANGED <<stores, docstore, disk, services, chat_service,
                               vector_store_cache, probes, loads>>]_vars

\* ingest_document("/no/such.txt") has returned while an earlier ingestion of
\* the run had filled the stores
C6_Witness ==
    /\ pc = "tools"
    /\ docstore # {}
    /\ \E i \in DOMAIN tool :
          /\ call(i) = [IngestCall(MissingPath) EXCEPT !.id = call(i).id]
          /\ tool[i].pc = "done"
          /\ tool[i].result = NotFoundText(MissingPath)

\* C7: neither tool raises past the tool boundary: every finished call has
\* returned a text, and a call in which a collaborator failed has returned the
\* error text of its tool.
C7_NeverRaises ==
    /\ [](/\ pc # "error"
          /\ \A i \in DOMAIN tool :
                tool[i].pc = "done" =>
                    tool[i].outcome = "returned" /\ tool[i].result # <<>>)
    /\ [][\A i \in DOMAIN tool :
            (pc = "tools" /\ faults' = faults + 1 /\ tool'[i] # tool[i]) =>
                /\ tool'[i].pc = "done"
                /\ tool'[i].outcome = "returned"
                /\ Len(tool'[i].result) = 2
                /\ tool'[i].result[1] =
                      IF call(i).name = "ingest_document"
                      THEN "Error ingesting document: "
                      ELSE "Error searching knowledge base: "]_vars

\* an ingest_document call whose vector store could not be acquired has
\* returned its error text
C7_Witness ==
    \E i \in DOMAIN tool :
        /\ call(i).name = "ingest_document"
        /\ tool[i].pc = "done"
        /\ tool[i].result \in {IngestErrorText("embedding probe failed"),
                               IngestErrorText("could not load store")}

\* C8: search_knowledge_base against a freshly created, empty store returns the
\* fixed "No relevant documents" text for every query and k when no
\* collaborator fails during the call.
C8_EmptyStoreSearch ==
    [][\A i \in DOMAIN tool :
          (/\ Running(i, "svc_call")
           /\ call(i).name = "search_knowledge_base"
           /\ stores[StoreOf(i)] = BuildNewStore
           /\ faults' = faults
           /\ tool'[i] # tool[i]) =>
              /\ tool'[i].pc = "done"
              /\ tool'[i].outcome = "returned"
              /\ tool'[i].result =
                    <<"No relevant documents found in the knowledge base.">>]_vars

\* a search with the default k has run against the store built in this run,
\* still empty
C8_Witness ==
    \E i \in DOMAIN tool :
        /\ call(i).name = "search_knowledge_base"
        /\ call(i).k = DefaultK
        /\ tool[i].pc = "done"
        /\ tool[i].svc # None
        /\ stores[StoreOf(i)] = BuildNewStore
        /\ tool[i].result = NoResults

\* C9: one Vector Store instance per process: under any interleaving of the
\* callers of get_vector_store at most one store is ever built or loaded and
\* every call returns that instance.
C9_SingleStore ==
    /\ Len(stores) <= 1
    /\ \A i \in DOMAIN tool : tool[i].store \in {None, vector_store_cache}
    /\ \A s \in DOMAIN services : services[s].vector_store = vector_store_cache

\* no thread is between the two halves of an insert
NoInsertRunning == \A i \in DOMAIN tool : tool[i].pc \notin {"ins_len", "ins_map"}

\* C10: inserts of concurrent ingestions are atomic with respect to the index
\* and the id mapping: outside an insert, every store has as many mapped
\* positions as index entries and every index position is mapped.
C10_IndexMappingLockstep ==
    NoInsertRunning =>
        \A s \in DOMAIN stores :
            DOMAIN stores[s].index_to_docstore_id = 0..(Len(stores[s].index) - 1)

\* C11: every Vector Store handed out by get_vector_store, built or loaded
\* from disk, has L2 normalization enabled.
C11_AlwaysNormalized ==
    /\ \A s \in DOMAIN stores : stores[s].normalize_L2
    /\ vector_store_cache # None => stores[vector_store_cache].normalize_L2

\* C15: the ChatService is constructed at most once under any interleaving of
\* tool calls, and every call that reaches the service uses that instance.
C15_SingleService ==
    /\ Len(services) <= 1
    /\ \A i \in DOMAIN tool : tool[i].svc \in {None, chat_service}

\* C12: a get_vector_store call that finds the cache empty loads the persisted
\* store if and only if the path exists and holds at least one entry; otherwise
\* it probes the dimension with one embed_query call and builds an empty store
\* of that dimension, and leaves the path alone.
C12_LoadOrBuild ==
    [][\A i \in DOMAIN tool :
          (Running(i, "gvs_create") /\ tool'[i] # tool[i]) =>
              /\ disk' = disk
              /\ IF disk.exists /\ disk.saved # <<>>
                 THEN /\ loads' = loads + 1
                      /\ probes' = probes
                      /\ faults' = faults =>
                            /\ Len(stores') = Len(stores) + 1
                            /\ SaveLocal(Last(stores')) = disk.saved[1]
                 ELSE /\ probes' = probes + 1
                      /\ loads' = loads
                      /\ faults' = faults =>
                            /\ Len(stores') = Len(stores) + 1
                            /\ Last(stores').index = <<>>
                            /\ Last(stores').index_to_docstore_id = EmptyMap
                            /\ Last(stores').docstore = EmptyMap
                            /\ Last(stores').dim = Len(embed_query("dimension check"))]_vars

\* the path did not exist and the first call built a store after one probe
C12_Witness ==
    /\ ~disk.exists
    /\ probes = 1
    /\ loads = 0
    /\ Len(stores) = 1
    /\ vector_store_cache = 1

\* C13: when the embedding probe or the load fails, get_vector_store propagates
\* the failure to its caller and leaves the cache as it was, so the cache only
\* ever holds a store whose creation or load succeeded.
C13_FailureNotCached ==
    /\ [](/\ vector_store_cache # None => vector_store_cache \in DOMAIN stores
          /\ Len(stores) + faults >= probes + loads)
    /\ [][\A i \in DOMAIN tool :
            (Running(i, "gvs_create") /\ faults' = faults + 1 /\ tool'[i] # tool[i]) =>
                /\ vector_store_cache' = vector_store_cache
                /\ stores' = stores
                /\ chat_service' = chat_service
                /\ services' = services
                /\ tool'[i].pc = "done"
                /\ tool'[i].store = None
                /\ tool'[i].result[2] \in {"embedding probe failed",
                                           "could not load store"}]_vars

\* a load failed, its caller got the failure, and the cache is still empty
C13_Witness ==
    /\ vector_store_cache = None
    /\ stores = <<>>
    /\ loads = 1
    /\ \E i \in DOMAIN tool :
          /\ tool[i].pc = "done"
          /\ Len(tool[i].result) = 2
          /\ tool[i].result[2] = "could not load store"

\* C14: after persist_vector_store, the store get_vector_store loads from the
\* same path answers every similarity search with the same ids and the same
\* scores, in the same order, as the store that was persisted.
C14_RoundTrip ==
    \A s \in DOMAIN stores :
        (HasPersistedStore(disk) /\ disk.saved[1] = SaveLocal(stores[s])) =>
            \A q \in Queries, k \in Ks :
                similarity_search(LoadLocal(disk.saved[1]), q, k) =
                    similarity_search(stores[s], q, k)

\* the records of a search result: the pieces between the separators
RECURSIVE Records(_)
Records(text) ==
    LET seps == {j \in DOMAIN text : text[j] = "\n\n---\n\n"}
    IN IF seps = {} THEN <<text>>
       ELSE LET first == CHOOSE j \in seps : \A l \in seps : j <= l
            IN <<SubSeq(text, 1, first - 1)>> \o
               Records(SubSeq(text, first + 1, Len(text)))

\* a record shows a label followed by a value
Shows(record, label, value) ==
    \E j \in 1..(Len(record) - 1) : record[j] = label /\ record[j + 1] = value

HasLabel(record, label) == \E j \in DOMAIN record : record[j] = label

\* the i-th record cites [i], ends with the chunk text, and shows the source
\* exactly when the chunk has one
CitesChunk(record, i, chunk) ==
    /\ Len(record) >= 5
    /\ SubSeq(record, 1, 3) = <<"[", ToString(i), "]">>
    /\ SubSeq(record, Len(record) - 1, Len(record)) = <<"\n", chunk.text>>
    /\ IF chunk.source # ""
       THEN Shows(record, " (Source: ", chunk.source)
       ELSE ~HasLabel(record, " (Source: ")

\* a search_knowledge_base call returns the n >= 1 chunks of its retrieval
Retrieved(i) == show_context(stores[StoreOf(i)], call(i).query, call(i).k).chunks

SearchReturns(i) ==
    /\ Running(i, "svc_call")
    /\ call(i).name = "search_knowledge_base"
    /\ faults' = faults
    /\ tool'[i] # tool[i]
    /\ ~show_context(stores[StoreOf(i)], call(i).query, call(i).k).raised
    /\ Retrieved(i) # <<>>

\* C16 as stated: n records in retrieval order, the i-th beginning with [i],
\* joined by the separator, each showing the source when the chunk has one and
\* the page number when the chunk has one.
C16_PageWheneverPresent ==
    [][\A i \in DOMAIN tool :
          SearchReturns(i) =>
              LET chunks == Retrieved(i)
                  records == Records(tool'[i].result)
              IN     /\ Len(records) = Len(chunks)
                     /\ \A j \in DOMAIN chunks :
                           /\ CitesChunk(records[j], j, chunks[j])
                           /\ IF chunks[j].page_number # 0
                              THEN Shows(records[j], ", Page ",
                                         ToString(chunks[j].page_number))
                              ELSE ~HasLabel(records[j], ", Page ")]_vars

\* C16 amended: as above, but the page number is shown when the chunk has both
\* a source file name and a page number.
C16_PageWithSource ==
    [][\A i \in DOMAIN tool :
          SearchReturns(i) =>
              LET chunks == Retrieved(i)
                  records == Records(tool'[i].result)
              IN     /\ Len(records) = Len(chunks)
                     /\ \A j \in DOMAIN chunks :
                           /\ CitesChunk(records[j], j, chunks[j])
                           /\ IF chunks[j].source # "" /\ chunks[j].page_number # 0
                              THEN Shows(records[j], ", Page ",
                                         ToString(chunks[j].page_number))
                              ELSE ~HasLabel(records[j], ", Page ")]_vars

\* a search has returned three records: a chunk with a source and no page, a
\* chunk with a page and no source, and a chunk with both
C16_Witness ==
    \E i \in DOMAIN tool :
        /\ tool[i].pc = "done"
        /\ call(i).name = "search_knowledge_base"
        /\ tool[i].result[1] = "["
        /\ Len(Records(tool[i].result)) = 3
        /\ \E j \in 1..3 : Shows(Records(tool[i].result)[j], ", Page ", "1")
        /\ \E j \in 1..3 : Records(tool[i].result)[j] = <<"[", ToString(j), "]", "\n", "old text">>

\* C17: the history is append-only during a turn: every step of the loop leaves
\* the history it found as a prefix of the history it produces (so the history
\* of any earlier state is a prefix of the history of any later one); no step
\* removes, reorders or rewrites an earlier message.
C17_AppendOnly ==
    [][/\ Len(messages') >= Len(messages)
       /\ SubSeq(messages', 1, Len(messages)) = messages]_vars

\* a three-message input history has been extended by an AGENT response with
\* two tool calls, the TOOLS results and another AGENT response
C17_Witness ==
    /\ Len(messages) >= 7
    /\ messages[3] = HumanMessage(3, "question")
    /\ messages[4].type = "ai" /\ Len(messages[4].tool_calls) = 2
    /\ messages[5].type = "tool" /\ messages[6].type = "tool"
    /\ messages[7].type = "ai"

\* C19: no AGENT step and no TOOLS step (nor any tool call inside one) changes
\* retrieved_docs, so throughout a turn it keeps the value of the turn's input;
\* and a value written to it replaces the previous one instead of being
\* appended to it.
C19_DocsNotAccumulated ==
    /\ [][retrieved_docs' = retrieved_docs]_vars
    /\ [](\E in \in TurnInputs :
              /\ retrieved_docs = in.retrieved_docs
              /\ SubSeq(messages, 1, Len(in.messages)) = in.messages)
    /\ [](\A written \in {in.retrieved_docs : in \in TurnInputs} :
              apply_update(RAGState(messages, retrieved_docs),
                           [retrieved_docs |-> written]).retrieved_docs = written)

\* a turn whose input carried a retrieved chunk has gone through an AGENT step,
\* a TOOLS step and the final AGENT step
C19_Witness ==
    /\ pc = "END"
    /\ toolsSteps >= 1
    /\ modelCalls >= 2
    /\ retrieved_docs = <<Chunk("old text", "", 0)>>

\* an ingest_document call whose path fails one of the two checks
FailsValidation(i) ==
    /\ call(i).name = "ingest_document"
    /\ \/ ~Exists(call(i).file_path)
       \/ Lower(Suffix(call(i).file_path)) # ".pdf"

\* C20: ingest_document validates before touching shared state: the existence
\* check decides first and the case-insensitive ".pdf" check second; a call
\* that fails either returns the corresponding error text in one step, never
\* holding a ChatService or a store, and that step leaves every process-wide
\* cache, every store and the disk as they were.
C20_ValidateFirst ==
    /\ [](pc = "tools" =>
            \A i \in DOMAIN tool :
                FailsValidation(i) =>
                    /\ tool[i].pc \in {"start", "done"}
                    /\ tool[i].svc = None
                    /\ tool[i].store = None
                    /\ tool[i].pc = "done" =>
                          /\ tool[i].outcome = "returned"
                          /\ tool[i].result =
                                IF ~Exists(call(i).file_path)
                                THEN <<"Error: File not found at ", call(i).file_path>>
                                ELSE <<"Error: File must be a PDF. Got ",
                                       Suffix(call(i).file_path)>>)
    /\ [][\A i \in DOMAIN tool :
            (Running(i, "start") /\ FailsValidation(i) /\ tool'[i] # tool[i]) =>
                /\ tool'[i].pc = "done"
                /\ UNCHANGED <<chat_service, vector_store_cache, services, stores,
                               docstore, disk, probes, loads>>]_vars

\* with the singletons constructed by an earlier call, one response's calls on a
\* missing path and on an existing non-PDF path have both returned
C20_Witness ==
    /\ pc = "tools"
    /\ chat_service # None
    /\ vector_store_cache # None
    /\ \E i, j \in DOMAIN tool :
          /\ call(i) = [IngestCall(MissingPath) EXCEPT !.id = call(i).id]
          /\ call(j) = [IngestCall(TxtPath) EXCEPT !.id = call(j).id]
          /\ tool[i].pc = "done" /\ tool[i].result[1] = NotFoundPrefix
          /\ tool[j].pc = "done" /\ tool[j].result[1] = NotPdfPrefix

\* C18: when the chat model answers without tool calls after finitely many
\* tool-calling responses and every invocation returns, the loop eventually
\* reaches END and stays there, the last message of the history being that
\* tool-call-free response.
C18_ReachesEnd ==
    <>[](/\ pc = "END"
         /\ Last(messages) = AIMessage(Len(messages), <<>>, "answer")
         /\ tool = <<>>)

\* the turn has ended after two tool-calling responses and the final answer
C18_Witness ==
    /\ pc = "END"
    /\ modelCalls = 3
    /\ toolsSteps = 2
    /\ Last(messages).type = "ai"
    /\ Last(messages).tool_calls = <<>>
====
